---- MODULE Spec2Model ----
(***************************************************************************)
(* frugal-router: decorators that accumulate routing metadata on           *)
(* controller classes (Methods, Controller, HttpStatus), and the Router    *)
(* that turns the metadata into express route handlers.                    *)
(*                                                                         *)
(* Strings that are composed or matched (prefixes, paths) are sequences    *)
(* of tokens, "/" being a token of its own, so that prefix + path is \o    *)
(* and route matching is computed on the composed string.                  *)
(***************************************************************************)
EXTENDS Integers, Sequences, FiniteSets, TLC

\* ---------------------------------------------------------------- bounds
MaxDecl == 3      \* decorator applications in one run
MaxReg == 2       \* register calls in one run
MaxMw == 1        \* middleware calls in one run
MaxReq == 1       \* requests in one run
MaxInFlight == 2  \* requests in flight together

\* ---------------------------------------------------------------- inputs
\* Controller classes: Derived extends Base, DefaultController is unrelated.
Types == {"DefaultController", "Base", "Derived"}

Parent(T) == IF T = "Derived" THEN {"Base"} ELSE {}

EHttpMethod == {"get", "put", "post", "patch", "delete"}

\* Arguments of the method decorators (requestMethod, path, propertyKey),
\* after the routes of DefaultController.
RouteArgs ==
  { [requestMethod |-> "get",    path |-> <<"/">>,        methodName |-> "indexAction"],
    [requestMethod |-> "get",    path |-> <<"/", ":id">>, methodName |-> "idAction"],
    [requestMethod |-> "post",   path |-> <<"/">>,        methodName |-> "postAction"],
    [requestMethod |-> "put",    path |-> <<"/">>,        methodName |-> "putAction"],
    [requestMethod |-> "delete", path |-> <<"/">>,        methodName |-> "deleteAction"],
    [requestMethod |-> "patch",  path |-> <<"/">>,        methodName |-> "patchAction"] }

MethodNames == { a.methodName : a \in RouteArgs }

\* Arguments of the Controller decorator.
Prefixes == { <<>>, <<"/", "api">> }

\* Arguments of the HttpStatus decorator.
StatusArgs == { [methodName |-> "postAction", code |-> 207],
                [methodName |-> "postAction", code |-> 0],
                [methodName |-> "indexAction", code |-> 300] }

\* Requests the express application hands to the router.
RequestPaths == { <<"/">>, <<"/", "api", "/">>, <<"/", "api", "/", "5">> }

\* What a controller method can return.
Values == {"undefined", "null", "false", "0", "emptyString", "true", "object"}

\* What a controller method can throw or reject with.
Thrown == { [kind |-> "HttpException", error |-> "Forbidden", status |-> 403],
            [kind |-> "HttpException", error |-> "Down", status |-> 500],
            [kind |-> "Error", error |-> "boom", status |-> 0] }

VARIABLES
  prefixMeta,   \* own 'prefix' metadata of each class: {} or {prefix}
  routesMeta,   \* own 'routes' metadata of each class: {} or {array id}
  routesHeap,   \* the RouteDefinition arrays, by the class that created them
  codesMeta,    \* own 'response_status_codes' metadata: {} or {map id}
  codesHeap,    \* the status code Maps, by the class that created them
  nDecl,        \* decorator applications so far
  stack,        \* the layers of the express router, in installation order
  regLog,       \* outcome of each register call, in call order
  nMw,          \* middleware() calls so far
  reqs,         \* the requests handed to the router
  warnLog,      \* console.warn entries
  errorLog,     \* console.error entries
  alive         \* the node process is running

vars == <<prefixMeta, routesMeta, routesHeap, codesMeta, codesHeap, nDecl,
          stack, regLog, nMw, reqs, warnLog, errorLog, alive>>

metaVars == <<prefixMeta, routesMeta, routesHeap, codesMeta, codesHeap, nDecl>>
routerVars == <<stack, regLog, nMw>>
reqVars == <<reqs, warnLog, errorLog, alive>>

\* ---------------------------------------------------------------- reflect-metadata
\* Reflect.getMetadata(key, target): the own metadata, else the one of the
\* prototype chain.  {} stands for undefined.
RECURSIVE GetMetadata(_, _)
GetMetadata(meta, T) ==
  IF meta[T] # {} THEN meta[T]
  ELSE IF Parent(T) = {} THEN {}
  ELSE GetMetadata(meta, CHOOSE P \in Parent(T) : TRUE)

HasMetadata(meta, T) == GetMetadata(meta, T) # {}

The(S) == CHOOSE x \in S : TRUE

\* The codes of a Map: Map.get(name) is {} (undefined) or {code}.
MapGet(map, name) == { e.code : e \in { e \in map : e.methodName = name } }

MapSet(map, name, code) ==
  { e \in map : e.methodName # name } \cup { [methodName |-> name, code |-> code] }

\* ---------------------------------------------------------------- decorators
\* Get/Put/Post/Patch/Delete(path)(target, propertyKey)
defineRouteDecorator(T, a) ==
  /\ alive
  /\ LET created == IF HasMetadata(routesMeta, T) THEN routesMeta
                    ELSE [routesMeta EXCEPT ![T] = {T}]
         id == The(GetMetadata(created, T))
     IN /\ routesHeap' = [routesHeap EXCEPT ![id] = Append(@, a)]
        /\ routesMeta' = [created EXCEPT ![T] = {id}]
  /\ nDecl' = nDecl + 1
  /\ UNCHANGED <<prefixMeta, codesMeta, codesHeap, routerVars, reqVars>>

\* Faulty variant: a Controller decorator that defines an empty routes
\* array without testing for an existing one
ControllerResetting(T, prefix) ==
  /\ alive
  /\ prefixMeta' = [prefixMeta EXCEPT ![T] = {prefix}]
  /\ routesMeta' = [routesMeta EXCEPT ![T] = {T}]
  /\ routesHeap' = [routesHeap EXCEPT ![T] = <<>>]
  /\ nDecl' = nDecl + 1
  /\ UNCHANGED <<codesMeta, codesHeap, routerVars, reqVars>>

\* Controller(prefix)(target)
Controller(T, prefix) ==
  /\ alive
  /\ prefixMeta' = [prefixMeta EXCEPT ![T] = {prefix}]
  /\ routesMeta' = IF HasMetadata(routesMeta, T) THEN routesMeta
                   ELSE [routesMeta EXCEPT ![T] = {T}]
  /\ nDecl' = nDecl + 1
  /\ UNCHANGED <<routesHeap, codesMeta, codesHeap, routerVars, reqVars>>

\* HttpStatus(code)(target, propertyKey)
HttpStatus(T, name, code) ==
  /\ alive
  /\ LET created == IF HasMetadata(codesMeta, T) THEN codesMeta
                    ELSE [codesMeta EXCEPT ![T] = {T}]
         id == The(GetMetadata(created, T))
     IN /\ codesHeap' = [codesHeap EXCEPT ![id] = MapSet(@, name, code)]
        /\ codesMeta' = [created EXCEPT ![T] = {id}]
  /\ nDecl' = nDecl + 1
  /\ UNCHANGED <<prefixMeta, routesMeta, routesHeap, routerVars, reqVars>>

\* ---------------------------------------------------------------- Router
\* JavaScript's prefix + route.path: an undefined prefix is converted to
\* the string "undefined".
Concat(prefixOpt, path) ==
  (IF prefixOpt = {} THEN <<"undefined">> ELSE The(prefixOpt)) \o path

\* The layer register installs for one RouteDefinition.  The closure keeps
\* the prefix read at registration, the status code Map (by reference)
\* and the controller class.
RouteLayer(T, route, prefixOpt, codesOpt, inst) ==
  [kind |-> "route", method |-> route.requestMethod,
   path |-> Concat(prefixOpt, route.path), route |-> route,
   controller |-> T, statusCodes |-> codesOpt, instance |-> inst]

UseLayer ==
  [kind |-> "use", method |-> "all", path |-> <<>>,
   route |-> [requestMethod |-> "all", path |-> <<>>, methodName |-> "notFoundHandler"],
   controller |-> "Router", statusCodes |-> {}, instance |-> 0]

RECURSIVE Layers(_, _, _, _, _)
Layers(T, routes, prefixOpt, codesOpt, inst) ==
  IF routes = <<>> THEN <<>>
  ELSE <<RouteLayer(T, Head(routes), prefixOpt, codesOpt, inst)>>
       \o Layers(T, Tail(routes), prefixOpt, codesOpt, inst)

\* Faulty variant: a register that installs the new layers in front of
\* the stack
registerInFront(T) ==
  /\ alive
  /\ LET prefixOpt == GetMetadata(prefixMeta, T)
         codesOpt == GetMetadata(codesMeta, T)
         routesOpt == GetMetadata(routesMeta, T)
         inst == Len(regLog) + 1
     IN IF routesOpt = {}
        THEN /\ regLog' = Append(regLog, [controller |-> T, threw |-> "TypeError", installed |-> 0])
             /\ stack' = stack
        ELSE LET routes == routesHeap[The(routesOpt)]
             IN /\ stack' = Layers(T, routes, prefixOpt, codesOpt, inst) \o stack
                /\ regLog' = Append(regLog, [controller |-> T, threw |-> "none", installed |-> Len(routes)])
  /\ UNCHANGED <<nMw, metaVars, reqVars>>

\* Router.register(controller).  routes.forEach on undefined throws a
\* TypeError before anything is installed.
register(T) ==
  /\ alive
  /\ LET prefixOpt == GetMetadata(prefixMeta, T)
         codesOpt == GetMetadata(codesMeta, T)
         routesOpt == GetMetadata(routesMeta, T)
         inst == Len(regLog) + 1
     IN IF routesOpt = {}
        THEN /\ regLog' = Append(regLog, [controller |-> T, threw |-> "TypeError", installed |-> 0])
             /\ stack' = stack
        ELSE LET routes == routesHeap[The(routesOpt)]
             IN /\ stack' = stack \o Layers(T, routes, prefixOpt, codesOpt, inst)
                /\ regLog' = Append(regLog, [controller |-> T, threw |-> "none", installed |-> Len(routes)])
  /\ UNCHANGED <<nMw, metaVars, reqVars>>

\* Router.middleware()
middleware ==
  /\ alive
  /\ stack' = Append(stack, UseLayer)
  /\ nMw' = nMw + 1
  /\ UNCHANGED <<regLog, metaVars, reqVars>>

\* ---------------------------------------------------------------- express
\* Faulty variant: a layer that takes every HTTP method
LayerMatchesAnyMethod(layer, method, path) ==
  \/ layer.kind = "use"
  \/ /\ layer.kind = "route"
     /\ LET pt == IF Len(layer.path) > 0 /\ layer.path[Len(layer.path)] = "/"
                  THEN SubSeq(layer.path, 1, Len(layer.path) - 1) ELSE layer.path
            ph == IF Len(path) > 0 /\ path[Len(path)] = "/"
                  THEN SubSeq(path, 1, Len(path) - 1) ELSE path
        IN /\ Len(pt) = Len(ph)
           /\ \A i \in 1..Len(pt) : IF pt[i] = ":id" THEN ph[i] # "/" ELSE pt[i] = ph[i]

\* Route matching of the express router (non-strict): one trailing "/" is
\* optional on both sides, a ":name" token stands for one non-"/" token,
\* every other token stands for itself.
StripSlash(s) ==
  IF Len(s) > 0 /\ s[Len(s)] = "/" THEN SubSeq(s, 1, Len(s) - 1) ELSE s

IsParam(tok) == tok \in {":id"}

Matches(pattern, path) ==
  LET pt == StripSlash(pattern)
      ph == StripSlash(path)
  IN /\ Len(pt) = Len(ph)
     /\ \A i \in 1..Len(pt) :
          IF IsParam(pt[i]) THEN ph[i] # "/" ELSE pt[i] = ph[i]

LayerMatches(layer, method, path) ==
  \/ layer.kind = "use"
  \/ /\ layer.kind = "route"
     /\ layer.method = method
     /\ Matches(layer.path, path)

\* Faulty variant: a router that tries its route layers before the
\* router.use layer wherever they stand
FirstMatchRoutesFirst(method, path) ==
  LET routes == { i \in 1..Len(stack) :
                    stack[i].kind = "route" /\ LayerMatches(stack[i], method, path) }
      hits == { i \in 1..Len(stack) : LayerMatches(stack[i], method, path) }
  IN IF routes # {} THEN CHOOSE i \in routes : \A j \in routes : i <= j
     ELSE IF hits = {} THEN 0 ELSE CHOOSE i \in hits : \A j \in hits : i <= j

\* Faulty variant: a router in which the route layer installed last takes
\* the request (last registration wins)
FirstMatchLatest(method, path) ==
  LET hits == { i \in 1..Len(stack) : LayerMatches(stack[i], method, path) }
      first == IF hits = {} THEN 0 ELSE CHOOSE i \in hits : \A j \in hits : i <= j
      uses == { i \in hits : stack[i].kind = "use" }
      mount == IF uses = {} THEN Len(stack) + 1 ELSE CHOOSE i \in uses : \A j \in uses : i <= j
      routes == { i \in hits : stack[i].kind = "route" /\ i < mount }
  IN IF routes = {} THEN first ELSE CHOOSE i \in routes : \A j \in routes : j <= i

\* The first layer of the stack that takes the request, 0 when none does.
FirstMatch(method, path) ==
  LET hits == { i \in 1..Len(stack) : LayerMatches(stack[i], method, path) }
  IN IF hits = {} THEN 0 ELSE CHOOSE i \in hits : \A j \in hits : i <= j

\* JSON.stringify of what a controller method returns.
Json(v) ==
  CASE v = "null" -> "null"
    [] v = "false" -> "false"
    [] v = "0" -> "0"
    [] v = "emptyString" -> "\"\""
    [] v = "true" -> "true"
    [] v = "object" -> "{\"hello\":\"hi!\"}"
    [] OTHER -> ""

\* JavaScript's !response
Falsy(v) == v \in {"undefined", "null", "false", "0", "emptyString"}

\* res.status(code).json(x) / .send() of express: writes the response and
\* finishes it; on a response that is already finished it throws.
Sends(q) == ~q.finished

Send(q, code, body, who) ==
  IF q.finished
  THEN [q EXCEPT !.failedWrites = @ + 1]
  ELSE [q EXCEPT !.finished = TRUE, !.status = code, !.body = body, !.by = who,
                 !.writes = @ + 1]

\* ---------------------------------------------------------------- HttpException
\* HttpException.getError() as res.json serialises it.
getError(e) ==
  "{\"error\":\"" \o e.error \o "\",\"status\":" \o ToString(e.status) \o "}"

\* ---------------------------------------------------------------- requests
Reqs == DOMAIN reqs

NoRequest ==
  [pc |-> "idle", method |-> "get", path |-> <<>>, layer |-> 0,
   finished |-> FALSE, status |-> 0, body |-> "", by |-> "none",
   writes |-> 0, failedWrites |-> 0, branches |-> <<>>, rejected |-> FALSE,
   outcome |-> [kind |-> "pending", value |-> "undefined", error |-> "", status |-> 0]]

NextIdle(r) == /\ reqs[r].pc = "idle"
               /\ \A s \in Reqs : s < r => reqs[s].pc # "idle"

\* A diagnostic of sendNoData / handleUnknownException: the controller
\* name, the prefix read again from the metadata + route.path, the method
\* name and the HTTP method.
Diagnostic(r, layer) ==
  [req |-> r, controller |-> layer.controller,
   route |-> Concat(GetMetadata(prefixMeta, layer.controller), layer.route.path),
   methodName |-> layer.route.methodName,
   requestMethod |-> layer.route.requestMethod]

\* Router.notFoundHandler: the request reaches the router.use layer.
notFoundHandler(r, method, path) ==
  /\ alive
  /\ nMw > 0
  /\ NextIdle(r)
  /\ FirstMatch(method, path) # 0
  /\ stack[FirstMatch(method, path)].kind = "use"
  /\ reqs' = [reqs EXCEPT ![r] =
       [Send([@ EXCEPT !.method = method, !.path = path,
                       !.layer = FirstMatch(method, path)],
             404, "{\"error\":\"Not Found\",\"status\":404}", "notFoundHandler")
        EXCEPT !.pc = "done", !.branches = <<"notFound">>]]
  /\ UNCHANGED <<warnLog, errorLog, alive, metaVars, routerVars>>

\* The handler register installed is called: it calls the controller
\* method and awaits it (part of Router.register).
invoke(r, method, path) ==
  /\ alive
  /\ nMw > 0
  /\ NextIdle(r)
  /\ FirstMatch(method, path) # 0
  /\ stack[FirstMatch(method, path)].kind = "route"
  /\ reqs' = [reqs EXCEPT ![r] =
       [@ EXCEPT !.pc = "await", !.method = method, !.path = path,
                 !.layer = FirstMatch(method, path)]]
  /\ UNCHANGED <<warnLog, errorLog, alive, metaVars, routerVars>>

\* The controller method writes the response itself (res.json(...)), as
\* DefaultController.deleteAction does.
directWrite(r) ==
  /\ alive
  /\ reqs[r].pc = "await"
  /\ ~reqs[r].finished
  /\ reqs' = [reqs EXCEPT ![r] = Send(@, 200, "{\"message\":\"direct\"}", "handler")]
  /\ UNCHANGED <<warnLog, errorLog, alive, metaVars, routerVars>>

\* How the awaited controller method settles: a returned (or resolved)
\* value, or something thrown (or a rejection).
Outcomes ==
  { [kind |-> "return", value |-> v, error |-> "", status |-> 0] : v \in Values }
  \cup { [kind |-> t.kind, value |-> "undefined", error |-> t.error, status |-> t.status]
         : t \in Thrown }

Effect(q, warn, error) == [q |-> q, warn |-> warn, error |-> error]

Branch(q, name) == [q EXCEPT !.branches = Append(@, name)]

\* Faulty variant: sendNoData that warns but writes no response
sendNoDataUnanswered(r, layer, q) ==
  Effect(Branch(q, "sendNoData"), <<Diagnostic(r, layer)>>, <<>>)

\* Router.sendNoData
sendNoData(r, layer, q) ==
  Effect(Send(Branch(q, "sendNoData"), 204, "", "dispatcher"),
         <<Diagnostic(r, layer)>>, <<>>)

\* Faulty variant: handleUnknownException without the console.error
handleUnknownExceptionSilent(r, layer, q) ==
  Effect([Send(Branch(q, "handleUnknownException"), 500,
               "{\"error\":\"Internal Server Error\",\"status\":500}", "dispatcher")
          EXCEPT !.rejected = ~Sends(q)],
         <<>>, <<>>)

\* Router.handleUnknownException
handleUnknownException(r, layer, q) ==
  Effect([Send(Branch(q, "handleUnknownException"), 500,
               "{\"error\":\"Internal Server Error\",\"status\":500}", "dispatcher")
          EXCEPT !.rejected = ~Sends(q)],
         <<>>, <<Diagnostic(r, layer)>>)

\* Faulty variant: a catch block without the instanceof HttpException branch
catchAsUnknown(r, layer, q, e) ==
  Effect([Send(Branch(q, "handleUnknownException"), 500,
               "{\"error\":\"Internal Server Error\",\"status\":500}", "dispatcher")
          EXCEPT !.rejected = ~Sends(q)],
         <<>>, <<Diagnostic(r, layer)>>)

\* The catch block of the handler: error instanceof HttpException or not.
\* What the catch block itself throws rejects the handler's promise.
catch(r, layer, q, e) ==
  IF e.kind = "HttpException"
  THEN Effect([Send(Branch(q, "HttpException"), e.status, getError(e), "dispatcher")
               EXCEPT !.rejected = ~Sends(q)],
              <<>>, <<>>)
  ELSE handleUnknownException(r, layer, q)

\* Faulty variant: statusCode with 200 as the default of every method
StatusCodeNoPost(layer) ==
  LET got == IF layer.statusCodes # {}
             THEN MapGet(codesHeap[The(layer.statusCodes)], layer.route.methodName)
             ELSE {}
  IN IF got # {} /\ The(got) # 0 THEN The(got) ELSE 200

\* statusCode of the handler: the code of the Map when there is a Map and
\* the code is truthy, else 201 for POST and 200 for the others.
StatusCode(layer) ==
  LET got == IF layer.statusCodes # {}
             THEN MapGet(codesHeap[The(layer.statusCodes)], layer.route.methodName)
             ELSE {}
  IN IF got # {} /\ The(got) # 0 THEN The(got)
     ELSE IF layer.route.requestMethod = "post" THEN 201 ELSE 200

HeadersSent == [kind |-> "Error", value |-> "undefined", error |-> "ERR_HTTP_HEADERS_SENT", status |-> 0]

\* The try block of the handler after the await.
try(r, layer, q, o) ==
  IF o.kind # "return" THEN catch(r, layer, q, o)
  ELSE IF Falsy(o.value) /\ q.finished THEN Effect(Branch(q, "return"), <<>>, <<>>)
  ELSE IF Falsy(o.value) /\ ~q.finished THEN sendNoData(r, layer, q)
  ELSE IF Sends(q)
       THEN Effect(Send(Branch(q, "json"), StatusCode(layer), Json(o.value), "dispatcher"),
                   <<>>, <<>>)
       ELSE catch(r, layer, Send(Branch(q, "json"), StatusCode(layer), Json(o.value), "dispatcher"),
                  HeadersSent)

\* The controller method settles and the handler runs to its end.
settle(r, o) ==
  /\ alive
  /\ reqs[r].pc = "await"
  /\ LET eff == try(r, stack[reqs[r].layer], [reqs[r] EXCEPT !.outcome = o], o)
     IN /\ reqs' = [reqs EXCEPT ![r] = [eff.q EXCEPT !.pc = "done"]]
        /\ warnLog' = warnLog \o eff.warn
        /\ errorLog' = errorLog \o eff.error
  /\ UNCHANGED <<alive, metaVars, routerVars>>

\* The promise of a handler whose catch block threw is rejected and nobody
\* handles it: node either only reports it (no step) or, from version 15
\* on, ends the process.
unhandledRejection(r) ==
  /\ alive
  /\ reqs[r].rejected
  /\ alive' = FALSE
  /\ UNCHANGED <<reqs, warnLog, errorLog, metaVars, routerVars>>

\* ---------------------------------------------------------------- specification
InitOf(n) ==
  /\ prefixMeta = [T \in Types |-> {}]
  /\ routesMeta = [T \in Types |-> {}]
  /\ routesHeap = [T \in Types |-> <<>>]
  /\ codesMeta = [T \in Types |-> {}]
  /\ codesHeap = [T \in Types |-> {}]
  /\ nDecl = 0
  /\ stack = <<>>
  /\ regLog = <<>>
  /\ nMw = 0
  /\ reqs = [r \in 1..n |-> NoRequest]
  /\ warnLog = <<>>
  /\ errorLog = <<>>
  /\ alive = TRUE

\* An application with one controller class, as the bootstrap of the
\* repository: decorators, register, middleware and one request at a time.
Init == InitOf(MaxReq)

Next ==
  \/ /\ nDecl < MaxDecl
     /\ \E a \in RouteArgs : defineRouteDecorator("DefaultController", a)
  \/ /\ nDecl < MaxDecl
     /\ \E p \in Prefixes : Controller("DefaultController", p)
  \/ /\ nDecl < MaxDecl
     /\ \E a \in StatusArgs : HttpStatus("DefaultController", a.methodName, a.code)
  \/ /\ Len(regLog) < MaxReg
     /\ register("DefaultController")
  \/ /\ nMw < MaxMw
     /\ middleware
  \/ \E r \in Reqs, m \in EHttpMethod, p \in RequestPaths : notFoundHandler(r, m, p)
  \/ \E r \in Reqs, m \in EHttpMethod, p \in RequestPaths : invoke(r, m, p)
  \/ \E r \in Reqs : directWrite(r)
  \/ \E r \in Reqs, o \in Outcomes : settle(r, o)
  \/ \E r \in Reqs : unhandledRejection(r)

Spec == Init /\ [][Next]_vars

\* Several controller classes, one of them derived from another:
\* decorators, register and middleware.
NextClasses ==
  \/ /\ nDecl < MaxDecl
     /\ \E T \in Types, a \in RouteArgs : defineRouteDecorator(T, a)
  \/ /\ nDecl < MaxDecl
     /\ \E T \in Types, p \in Prefixes : Controller(T, p)
  \/ /\ nDecl < MaxDecl
     /\ \E T \in Types, a \in StatusArgs : HttpStatus(T, a.methodName, a.code)
  \/ /\ Len(regLog) < MaxReg
     /\ \E T \in Types : register(T)
  \/ /\ nMw < MaxMw
     /\ middleware

SpecClasses == Init /\ [][NextClasses]_vars

\* The application of the repository: the metadata the decorators of
\* DefaultController leave behind (method decorators from the first method
\* to the last, HttpStatus before the route decorator, the class
\* decorator last), then register, middleware and concurrent requests.
DefaultControllerRoutes ==
  << [requestMethod |-> "get",    path |-> <<"/">>,        methodName |-> "indexAction"],
     [requestMethod |-> "get",    path |-> <<"/", ":id">>, methodName |-> "idAction"],
     [requestMethod |-> "post",   path |-> <<"/">>,        methodName |-> "postAction"],
     [requestMethod |-> "put",    path |-> <<"/">>,        methodName |-> "putAction"],
     [requestMethod |-> "delete", path |-> <<"/">>,        methodName |-> "deleteAction"],
     [requestMethod |-> "patch",  path |-> <<"/">>,        methodName |-> "patchAction"] >>

InitServer ==
  /\ prefixMeta = [T \in Types |-> IF T = "DefaultController" THEN {<<"/", "api">>} ELSE {}]
  /\ routesMeta = [T \in Types |-> IF T = "DefaultController" THEN {T} ELSE {}]
  /\ routesHeap = [T \in Types |-> IF T = "DefaultController" THEN DefaultControllerRoutes ELSE <<>>]
  /\ codesMeta = [T \in Types |-> IF T = "DefaultController" THEN {T} ELSE {}]
  /\ codesHeap = [T \in Types |->
                    IF T = "DefaultController"
                    THEN { [methodName |-> "indexAction", code |-> 300],
                           [methodName |-> "idAction", code |-> 200] }
                    ELSE {}]
  /\ nDecl = 9
  /\ stack = <<>>
  /\ regLog = <<>>
  /\ nMw = 0
  /\ reqs = [r \in 1..MaxInFlight |-> NoRequest]
  /\ warnLog = <<>>
  /\ errorLog = <<>>
  /\ alive = TRUE

NextServer ==
  \/ /\ Len(regLog) < MaxReg
     /\ register("DefaultController")
  \/ /\ nMw < MaxMw
     /\ middleware
  \/ \E r \in Reqs, m \in EHttpMethod, p \in RequestPaths : notFoundHandler(r, m, p)
  \/ \E r \in Reqs, m \in EHttpMethod, p \in RequestPaths : invoke(r, m, p)
  \/ \E r \in Reqs : directWrite(r)
  \/ \E r \in Reqs, o \in Outcomes : settle(r, o)
  \/ \E r \in Reqs : unhandledRejection(r)

SpecServer == InitServer /\ [][NextServer]_vars

\* The application of the repository with controller methods that settle:
\* as long as the process lives, the awaited call of every request in
\* flight returns or throws at some time and the handler runs on.
SpecServerFair ==
  /\ SpecServer
  /\ \A r \in 1..MaxInFlight : WF_vars(\E o \in Outcomes : settle(r, o))

\* Two unrelated controller classes whose Controller decorators have run
\* (DefaultController at "/api", Base at ""): route decorators, register,
\* middleware and requests.
TwoControllers == {"DefaultController", "Base"}

TwoRouteArgs ==
  { a \in RouteArgs : a.methodName \in {"indexAction", "idAction", "postAction"} }

TwoMethods == {"get", "post", "put"}

TwoOutcomes ==
  { o \in Outcomes : \/ o.kind = "return" /\ o.value \in {"undefined", "object"}
                     \/ o.kind = "HttpException" /\ o.status = 403
                     \/ o.kind = "Error" }

InitTwo ==
  /\ prefixMeta = [T \in Types |-> IF T = "DefaultController" THEN {<<"/", "api">>}
                                   ELSE IF T = "Base" THEN {<<>>} ELSE {}]
  /\ routesMeta = [T \in Types |-> IF T \in TwoControllers THEN {T} ELSE {}]
  /\ routesHeap = [T \in Types |-> <<>>]
  /\ codesMeta = [T \in Types |-> {}]
  /\ codesHeap = [T \in Types |-> {}]
  /\ nDecl = 0
  /\ stack = <<>>
  /\ regLog = <<>>
  /\ nMw = 0
  /\ reqs = [r \in 1..MaxReq |-> NoRequest]
  /\ warnLog = <<>>
  /\ errorLog = <<>>
  /\ alive = TRUE

NextTwo ==
  \/ /\ nDecl < MaxDecl
     /\ \E T \in TwoControllers, a \in TwoRouteArgs : defineRouteDecorator(T, a)
  \/ /\ Len(regLog) < MaxReg + 1
     /\ \E T \in TwoControllers : register(T)
  \/ /\ nMw < MaxMw
     /\ middleware
  \/ \E r \in Reqs, m \in TwoMethods, p \in RequestPaths : notFoundHandler(r, m, p)
  \/ \E r \in Reqs, m \in TwoMethods, p \in RequestPaths : invoke(r, m, p)
  \/ \E r \in Reqs : directWrite(r)
  \/ \E r \in Reqs, o \in TwoOutcomes : settle(r, o)
  \/ \E r \in Reqs : unhandledRejection(r)

SpecTwo == InitTwo /\ [][NextTwo]_vars

\* ---------------------------------------------------------------- properties
\* The step in which the awaited controller method of request r settles
\* and the handler finishes.
Settling(r) == reqs[r].pc = "await" /\ reqs'[r].pc = "done"

HandlerLayer(r) == stack[reqs[r].layer]

\* statusOverrides of the RouteTable of a controller class.
StatusOverrides(T) ==
  IF GetMetadata(codesMeta, T) = {} THEN {} ELSE codesHeap[The(GetMetadata(codesMeta, T))]

\* The override declared for the handler of a layer: {} or {code}.
DeclaredStatus(layer) == MapGet(StatusOverrides(layer.controller), layer.route.methodName)

\* The RouteTable was complete when register read it: no decorator has
\* created the status code Map or changed the prefix since.
AfterAllWrites(layer) ==
  /\ layer.statusCodes = GetMetadata(codesMeta, layer.controller)
  /\ layer.path = Concat(GetMetadata(prefixMeta, layer.controller), layer.route.path)

\* C1: whenever a handler with a declared status override returns a value
\* and has not written the response itself, the response carries exactly
\* the override code, for every HTTP method and every code.
C1_OverrideAlwaysWins ==
  [][\A r \in Reqs :
       (/\ Settling(r)
        /\ ~reqs[r].finished
        /\ reqs'[r].outcome.kind = "return"
        /\ reqs'[r].outcome.value # "undefined"
        /\ AfterAllWrites(HandlerLayer(r))
        /\ DeclaredStatus(HandlerLayer(r)) # {})
       => /\ reqs'[r].finished
          /\ reqs'[r].status = The(DeclaredStatus(HandlerLayer(r)))]_vars

\* C2: whenever a handler without a declared status override returns a
\* non-empty (truthy) value and has not written the response itself, the
\* response is 201 for POST and 200 for the other methods, with the value
\* serialised as JSON, with or without a status code Map on the class.
C2_MethodDefault ==
  [][\A r \in Reqs :
       (/\ Settling(r)
        /\ ~reqs[r].finished
        /\ reqs'[r].outcome.kind = "return"
        /\ ~Falsy(reqs'[r].outcome.value)
        /\ DeclaredStatus(HandlerLayer(r)) = {})
       => /\ reqs'[r].finished
          /\ reqs'[r].by = "dispatcher"
          /\ reqs'[r].status = (IF HandlerLayer(r).method = "post" THEN 201 ELSE 200)
          /\ reqs'[r].body = (IF reqs'[r].outcome.value = "object"
                              THEN "{\"hello\":\"hi!\"}" ELSE "true")]_vars

\* A POST handler without override, on a class whose Map only has
\* overrides for other handlers, has answered 201.
C2_Witness ==
  \E r \in Reqs :
    /\ reqs[r].pc = "done"
    /\ reqs[r].method = "post"
    /\ reqs[r].outcome.kind = "return"
    /\ reqs[r].by = "dispatcher"
    /\ reqs[r].status = 201
    /\ StatusOverrides(stack[reqs[r].layer].controller) # {}
    /\ DeclaredStatus(stack[reqs[r].layer]) = {}

\* C3: when the controller method returns (a value or none) after having
\* written the response itself, the handler does nothing more: no write,
\* no attempt to write, no warning, no error diagnostic.
C3_HandlerTookResponsibility ==
  [][\A r \in Reqs :
       (/\ Settling(r)
        /\ reqs[r].finished
        /\ reqs'[r].outcome.kind = "return")
       => /\ reqs'[r].status = reqs[r].status
          /\ reqs'[r].body = reqs[r].body
          /\ reqs'[r].by = "handler"
          /\ reqs'[r].writes = reqs[r].writes
          /\ reqs'[r].failedWrites = reqs[r].failedWrites
          /\ warnLog' = warnLog
          /\ errorLog' = errorLog]_vars

\* {error: message, status: status} as JSON.
DeclaredFailureBody(o) ==
  "{\"error\":\"" \o o.error \o "\",\"status\":" \o ToString(o.status) \o "}"

ExpectedDiagnostic(r, layer) ==
  [req |-> r, controller |-> layer.controller, route |-> layer.path,
   methodName |-> layer.route.methodName, requestMethod |-> layer.method]

GenericBody == "{\"error\":\"Internal Server Error\",\"status\":500}"

C6_NoContent ==
  [][/\ \A r \in Reqs :
          (/\ Settling(r)
           /\ ~reqs[r].finished
           /\ reqs'[r].outcome.kind = "return"
           /\ reqs'[r].outcome.value = "undefined")
          => /\ reqs'[r].status = 204
             /\ reqs'[r].body = ""
             /\ Len(warnLog') = Len(warnLog) + 1
     /\ warnLog' # warnLog
          => \E r \in Reqs :
               /\ Settling(r)
               /\ ~reqs[r].finished
               /\ reqs'[r].outcome.kind = "return"
               /\ reqs'[r].outcome.value = "undefined"]_vars

\* A route layer of the stack takes the request.
RegisteredMatch(method, path) ==
  \E i \in 1..Len(stack) :
    /\ stack[i].kind = "route"
    /\ stack[i].method = method
    /\ Matches(stack[i].path, path)

\* middleware() was called, and after every register call.
MountedAfterRegisters ==
  /\ nMw > 0
  /\ \A i, j \in 1..Len(stack) :
       (stack[i].kind = "route" /\ stack[j].kind = "use") => i < j

\* The step in which the router takes request r.
Arriving(r) == reqs[r].pc = "idle" /\ reqs'[r].pc # "idle"

\* C7: once middleware() has been called after all register calls, a
\* request that matches no registered route is answered 404 with
\* {error: "Not Found", status: 404}, and a request that matches a
\* registered route is never answered by the not-found handler.
C7_NotFound ==
  [][\A r \in Reqs :
       /\ (Arriving(r) /\ MountedAfterRegisters)
          => IF RegisteredMatch(reqs'[r].method, reqs'[r].path)
             THEN /\ reqs'[r].pc = "await"
                  /\ ~reqs'[r].finished
                  /\ stack[reqs'[r].layer].kind = "route"
             ELSE /\ reqs'[r].pc = "done"
                  /\ reqs'[r].status = 404
                  /\ reqs'[r].body = "{\"error\":\"Not Found\",\"status\":404}"
                  /\ reqs'[r].by = "notFoundHandler"
       /\ (reqs[r].by # "notFoundHandler" /\ reqs'[r].by = "notFoundHandler")
          => (Arriving(r) /\ (MountedAfterRegisters
                              => ~RegisteredMatch(reqs'[r].method, reqs'[r].path)))]_vars

\* A request whose path has a registered route, under another HTTP method,
\* has been answered by the not-found handler.
C7_Witness ==
  \E r \in Reqs :
    /\ reqs[r].pc = "done"
    /\ reqs[r].by = "notFoundHandler"
    /\ reqs[r].status = 404
    /\ \E i \in 1..Len(stack) :
         /\ stack[i].kind = "route"
         /\ i < reqs[r].layer
         /\ Matches(stack[i].path, reqs[r].path)
         /\ stack[i].method # reqs[r].method

\* The step in which register(T) is called.
Registering(T) ==
  /\ Len(regLog') = Len(regLog) + 1
  /\ regLog'[Len(regLog')].controller = T

\* prefix of the RouteTable of a class: "" unless a prefix was declared.
DeclaredPrefix(T) == IF prefixMeta[T] = {} THEN <<>> ELSE The(prefixMeta[T])

\* C8: register binds every RouteEntry of the class under its HTTP method
\* at exactly prefix + entry.path, the prefix being "" when the class has
\* routes but no declared prefix.
C8_PathComposition ==
  [][\A T \in Types :
       (Registering(T) /\ routesMeta[T] # {})
       => LET entries == routesHeap[The(routesMeta[T])]
          IN /\ Len(stack') = Len(stack) + Len(entries)
             /\ \A k \in 1..Len(entries) :
                  /\ stack'[Len(stack) + k].method = entries[k].requestMethod
                  /\ stack'[Len(stack) + k].path = DeclaredPrefix(T) \o entries[k].path]_vars

\* The class was never declared through a decorator.
NoRouteTable(T) == prefixMeta[T] = {} /\ routesMeta[T] = {} /\ codesMeta[T] = {}

\* C9: register of a class that has no RouteTable fails at registration
\* time, installs no handler and leaves the routing surface unchanged.
C9_ConfigurationFailure ==
  [][\A T \in Types :
       (Registering(T) /\ NoRouteTable(T))
       => /\ regLog'[Len(regLog')].threw # "none"
          /\ stack' = stack]_vars

\* C10: a step of one request leaves every other request as it is, and no
\* step taken while a request is in flight stops it from being answered.
C10_Containment ==
  [][/\ \A r, s \in Reqs : (r # s /\ reqs'[r] # reqs[r]) => reqs'[s] = reqs[s]
     /\ \A s \in Reqs : (reqs[s].pc = "await" /\ alive) => alive']_vars

\* Two composed paths take a common request path.
Overlap(p1, p2) ==
  LET a == StripSlash(p1)
      b == StripSlash(p2)
  IN /\ Len(a) = Len(b)
     /\ \A i \in 1..Len(a) :
          \/ a[i] = b[i]
          \/ IsParam(a[i]) /\ b[i] # "/"
          \/ IsParam(b[i]) /\ a[i] # "/"

\* The composed paths of different controllers are disjoint.
DisjointPaths ==
  \A i, j \in 1..Len(stack) :
    (/\ stack[i].kind = "route"
     /\ stack[j].kind = "route"
     /\ stack[i].controller # stack[j].controller)
    => ~Overlap(stack[i].path, stack[j].path)

\* The layers register installed for controller T that take the request.
LayersOf(T, method, path) ==
  { i \in 1..Len(stack) :
      /\ stack[i].kind = "route"
      /\ stack[i].controller = T
      /\ LayerMatches(stack[i], method, path) }

\* T has been registered without failure.
Registered(T) ==
  \E k \in 1..Len(regLog) : regLog[k].controller = T /\ regLog[k].threw = "none"

\* C11: with the controllers' composed paths disjoint and the router
\* mounted after the registrations, a request to a route of a controller
\* is taken by the first layer of that controller that takes it, as if the
\* controller were registered alone; registering a controller type again
\* does not fail and leaves the layer that answers any request to a route
\* of another controller, and every request in flight, as they are.
C11_MultipleRegistration ==
  [][/\ \A r \in Reqs, T \in Types :
          (/\ Arriving(r)
           /\ MountedAfterRegisters
           /\ DisjointPaths
           /\ LayersOf(T, reqs'[r].method, reqs'[r].path) # {})
          => /\ reqs'[r].pc = "await"
             /\ reqs'[r].layer \in LayersOf(T, reqs'[r].method, reqs'[r].path)
             /\ \A i \in LayersOf(T, reqs'[r].method, reqs'[r].path) : reqs'[r].layer <= i
     /\ \A T \in Types :
          (Registering(T) /\ Registered(T))
          => /\ regLog'[Len(regLog')].threw = "none"
             /\ alive' = alive
             /\ reqs' = reqs
             /\ \A m \in EHttpMethod, p \in RequestPaths :
                  (/\ FirstMatch(m, p) # 0
                   /\ stack[FirstMatch(m, p)].controller # T)
                  => /\ FirstMatch(m, p)' = FirstMatch(m, p)
                     /\ stack'[FirstMatch(m, p)] = stack[FirstMatch(m, p)]]_vars

\* One controller was registered twice, another one once, their paths are
\* disjoint, and a request to a route of the other one has been answered
\* by its handler.
C11_Witness ==
  \E r \in Reqs, T \in Types :
    /\ reqs[r].pc = "done"
    /\ reqs[r].by = "dispatcher"
    /\ stack[reqs[r].layer].kind = "route"
    /\ stack[reqs[r].layer].controller # T
    /\ Cardinality({ k \in 1..Len(regLog) :
                       /\ regLog[k].controller = T
                       /\ regLog[k].threw = "none"
                       /\ regLog[k].installed > 0 }) = 2
    /\ DisjointPaths
    /\ MountedAfterRegisters

\* C12: the 204 no-content path is taken only when the controller method
\* returned no value; for every value it returns (false, 0, "" and null
\* included) without having written the response, the handler writes the
\* resolved status (the override, else 201 for POST, else 200) with the
\* value as JSON body and emits no warning.
C12_ValueClassification ==
  [][\A r \in Reqs :
       (/\ Settling(r)
        /\ ~reqs[r].finished
        /\ AfterAllWrites(HandlerLayer(r))
        /\ reqs'[r].outcome.kind = "return")
       => IF reqs'[r].outcome.value = "undefined"
          THEN reqs'[r].status = 204
          ELSE /\ reqs'[r].status # 204
               /\ reqs'[r].by = "dispatcher"
               /\ reqs'[r].status =
                    (IF DeclaredStatus(HandlerLayer(r)) # {}
                     THEN The(DeclaredStatus(HandlerLayer(r)))
                     ELSE IF HandlerLayer(r).method = "post" THEN 201 ELSE 200)
               /\ reqs'[r].body = Json(reqs'[r].outcome.value)
               /\ warnLog' = warnLog]_vars

\* The step in which a decorator runs.
Declaring == nDecl' = nDecl + 1

\* C13: register reads the RouteTable of a controller once; a decorator
\* that runs for the controller after register has returned changes
\* neither the installed handlers, nor the paths they are bound at, nor
\* the status code or the diagnostics an installed handler produces for
\* later requests.
C13_ReadOnce ==
  [][(Declaring /\ Registered("DefaultController"))
     => /\ stack' = stack
        /\ \A i \in 1..Len(stack), r \in Reqs :
             (stack[i].kind = "route" /\ stack[i].controller = "DefaultController")
             => /\ StatusCode(stack[i])' = StatusCode(stack[i])
                /\ Diagnostic(r, stack[i])' = Diagnostic(r, stack[i])]_vars

\* The RouteTable a controller class owns: prefix, entries, statusOverrides
\* ({} where the class has none of its own).
OwnTable(T) ==
  [prefix |-> prefixMeta[T],
   entries |-> IF routesMeta[T] = {} THEN {} ELSE {routesHeap[The(routesMeta[T])]},
   statusOverrides |-> IF codesMeta[T] = {} THEN {} ELSE {codesHeap[The(codesMeta[T])]}]

\* C14: every controller class has a RouteTable of its own, and a
\* decorator applied to one class leaves the prefix, the entries and the
\* status overrides of every other class unchanged, also when one of the
\* classes extends the other.
C14_TableIsolation ==
  [][/\ \A T, U \in Types :
          T # U => /\ routesMeta[T] \cap routesMeta[U] = {}
                   /\ codesMeta[T] \cap codesMeta[U] = {}
     /\ Declaring => \E T \in Types :
                       \A U \in Types \ {T} : OwnTable(U)' = OwnTable(U)]_vars

\* entries of the RouteTable a controller class owns.
Entries(T) == IF routesMeta[T] = {} THEN <<>> ELSE routesHeap[The(routesMeta[T])]

\* C15: a decorator call appends at most one RouteEntry, at the end of the
\* entries of one class, and never modifies, reorders or removes an entry,
\* so that the entries of a class are its route declarations in call
\* order; register installs exactly one handler per entry of the class,
\* in that order.
C15_DeclarationOrder ==
  [][/\ Declaring
          => /\ \A T \in Types :
                  /\ Len(Entries(T)') \in {Len(Entries(T)), Len(Entries(T)) + 1}
                  /\ SubSeq(Entries(T)', 1, Len(Entries(T))) = Entries(T)
             /\ Cardinality({ T \in Types : Entries(T)' # Entries(T) }) <= 1
     /\ \A T \in Types :
          (Registering(T) /\ routesMeta[T] # {})
          => /\ Len(stack') = Len(stack) + Len(Entries(T))
             /\ SubSeq(stack', 1, Len(stack)) = stack
             /\ \A k \in 1..Len(Entries(T)) :
                  /\ stack'[Len(stack) + k].kind = "route"
                  /\ stack'[Len(stack) + k].route = Entries(T)[k]]_vars

\* The three components of the RouteTable of DefaultController after a
\* step, in terms of those before it, for each kind of decorator.
RouteStep(T) ==
  /\ \E a \in RouteArgs : Entries(T)' = Append(Entries(T), a)
  /\ prefixMeta'[T] = prefixMeta[T]
  /\ StatusOverrides(T)' = StatusOverrides(T)

PrefixStep(T) ==
  /\ \E p \in Prefixes : prefixMeta'[T] = {p}
  /\ Entries(T)' = Entries(T)
  /\ StatusOverrides(T)' = StatusOverrides(T)

StatusStep(T) ==
  /\ \E a \in StatusArgs :
       StatusOverrides(T)' =
         { e \in StatusOverrides(T) : e.methodName # a.methodName }
         \cup { [methodName |-> a.methodName, code |-> a.code] }
  /\ Entries(T)' = Entries(T)
  /\ prefixMeta'[T] = prefixMeta[T]

\* C16: in whatever order the decorators of one class are called, each
\* call changes one component of the RouteTable only, as a function of
\* that component and of its argument: a route decorator appends its
\* entry, Controller sets the prefix (the last call wins), HttpStatus sets
\* or overwrites the code of its handler; so the table does not depend on
\* the order of calls of different kinds.  Every call can be made in
\* every state.
C16_OrderIndependence ==
  [][/\ Declaring => \/ RouteStep("DefaultController")
                     \/ PrefixStep("DefaultController")
                     \/ StatusStep("DefaultController")
     /\ alive => /\ \A a \in RouteArgs : ENABLED defineRouteDecorator("DefaultController", a)
                 /\ \A p \in Prefixes : ENABLED Controller("DefaultController", p)
                 /\ \A a \in StatusArgs :
                      ENABLED HttpStatus("DefaultController", a.methodName, a.code)]_vars

\* Decorators of the three kinds have run on the class: its table holds
\* the entry, the prefix and the override they declared.
C16_Witness ==
  /\ nDecl = 3
  /\ Len(Entries("DefaultController")) = 1
  /\ prefixMeta["DefaultController"] = {<<"/", "api">>}
  /\ StatusOverrides("DefaultController") = {[methodName |-> "postAction", code |-> 207]}

\* C17: a request dispatched to a registered route whose controller method
\* settles while the process lives gets exactly one response written, when
\* the method settles; as long as the method has not settled nothing but
\* the method itself has written a response for the request.
C17_ResponseLiveness ==
  \A r \in 1..MaxInFlight :
    /\ (reqs[r].pc = "await")
         ~> (\/ /\ reqs[r].pc = "done"
                /\ reqs[r].finished
                /\ reqs[r].writes = 1
             \/ ~alive)
    /\ [](reqs[r].pc = "done" => (reqs[r].finished /\ reqs[r].writes = 1))
    /\ [](reqs[r].pc = "await" => /\ reqs[r].by \in {"none", "handler"}
                                  /\ reqs[r].failedWrites = 0
                                  /\ reqs[r].branches = <<>>)

\* One request has been answered by its handler when its controller
\* method settled while another one, still awaited, has no response.
C17_Witness ==
  \E r, s \in Reqs :
    /\ reqs[r].pc = "done"
    /\ stack[reqs[r].layer].kind = "route"
    /\ reqs[r].by = "dispatcher"
    /\ reqs[r].writes = 1
    /\ reqs[s].pc = "await"
    /\ ~reqs[s].finished

\* The place of the first router.use layer in the stack (middleware() has
\* been called).
Mount == CHOOSE u \in 1..Len(stack) :
           /\ stack[u].kind = "use"
           /\ \A v \in 1..Len(stack) : stack[v].kind = "use" => u <= v

\* A route layer installed before (after) the first middleware() call
\* takes the request.
MatchBeforeMount(method, path) ==
  \E i \in 1..Len(stack) :
    i < Mount /\ stack[i].kind = "route" /\ LayerMatches(stack[i], method, path)

MatchAfterMount(method, path) ==
  \E i \in 1..Len(stack) :
    i > Mount /\ stack[i].kind = "route" /\ LayerMatches(stack[i], method, path)

\* C18: once middleware() has been called, a request to a route registered
\* before that call is given to its handler, and a request that only
\* routes registered after that call would take is answered 404 by the
\* not-found handler.
C18_InstallBeforeMount ==
  [][\A r \in Reqs :
       (Arriving(r) /\ nMw > 0)
       => IF MatchBeforeMount(reqs'[r].method, reqs'[r].path)
          THEN /\ reqs'[r].pc = "await"
               /\ reqs'[r].layer < Mount
               /\ ~reqs'[r].finished
          ELSE /\ reqs'[r].pc = "done"
               /\ reqs'[r].layer = Mount
               /\ reqs'[r].by = "notFoundHandler"
               /\ reqs'[r].status = 404
               /\ reqs'[r].body = "{\"error\":\"Not Found\",\"status\":404}"]_vars

\* A request to a route registered after middleware() has been answered
\* 404, with other routes registered before middleware().
C18_Witness ==
  \E r \in Reqs :
    /\ reqs[r].pc = "done"
    /\ reqs[r].by = "notFoundHandler"
    /\ reqs[r].status = 404
    /\ MatchAfterMount(reqs[r].method, reqs[r].path)
    /\ \E i \in 1..Len(stack) : i < Mount /\ stack[i].kind = "route"

\* The terminal outcomes of the handler.
TerminalOutcomes == {"HttpException", "handleUnknownException", "return", "sendNoData", "json"}

\* C19: every handler invocation executes exactly one of the terminal
\* outcomes (declared-failure response, 500 response, nothing, 204, status
\* and JSON), the dispatcher writes at most one response per request and
\* never attempts to write a response that has been sent, also when the
\* controller method wrote the response itself and then returned a value
\* or threw.
C19_AtMostOneWrite ==
  \A r \in Reqs :
    /\ reqs[r].failedWrites = 0
    /\ reqs[r].writes <= 1
    /\ \A k \in 1..Len(reqs[r].branches) : reqs[r].branches[k] \in TerminalOutcomes \cup {"notFound"}
    /\ (reqs[r].pc = "done" /\ stack[reqs[r].layer].kind = "route")
         => /\ Len(reqs[r].branches) = 1
            /\ reqs[r].branches[1] \in TerminalOutcomes

\* The route layers that take the request.
RouteHits(method, path) ==
  { i \in 1..Len(stack) : stack[i].kind = "route" /\ LayerMatches(stack[i], method, path) }

\* The handler dispatch hands the request to: the earliest installed route
\* layer that takes it, and no layer after it.
EarliestHandler(r) ==
  /\ reqs'[r].pc = "await"
  /\ reqs'[r].by = "none"
  /\ reqs'[r].layer \in RouteHits(reqs'[r].method, reqs'[r].path)
  /\ \A i \in RouteHits(reqs'[r].method, reqs'[r].path) : reqs'[r].layer <= i

\* C20 as claimed: every request that matches an installed route is
\* handled by the earliest installed handler that matches, never by the
\* not-found handler.
C20_SingleHandlerAlways ==
  [][\A r \in Reqs :
       (Arriving(r) /\ RouteHits(reqs'[r].method, reqs'[r].path) # {})
       => EarliestHandler(r)]_vars

\* C20 as amended: every request that matches a route installed before
\* middleware() was called is handled by exactly one handler, the earliest
\* installed one whose HTTP method and path pattern match; the request
\* stays with that handler and is never answered by the not-found
\* handler.
C20_SingleHandler ==
  [][\A r \in Reqs :
       /\ (Arriving(r) /\ MatchBeforeMount(reqs'[r].method, reqs'[r].path))
          => EarliestHandler(r)
       /\ (reqs[r].pc # "idle" /\ stack[reqs[r].layer].kind = "route")
          => /\ reqs'[r].layer = reqs[r].layer
             /\ reqs'[r].method = reqs[r].method
             /\ reqs'[r].path = reqs[r].path
             /\ reqs'[r].by # "notFoundHandler"]_vars

\* A request that two installed handlers match (duplicates of a second
\* register of the class) has been answered by the one installed first.
C20_Witness ==
  \E r \in Reqs :
    /\ reqs[r].pc = "done"
    /\ reqs[r].by = "dispatcher"
    /\ stack[reqs[r].layer].kind = "route"
    /\ \E j \in RouteHits(reqs[r].method, reqs[r].path) :
         /\ reqs[r].layer < j
         /\ j < Mount
         /\ stack[j].instance # stack[reqs[r].layer].instance

====
